---- MODULE Spec2Model ----
(***************************************************************************)
(* Rock-Paper-Scissors-Plus: the decision engine (agent.py, class AIAgent),*)
(* the rule tools (tools.py), the game state (state.py) and the match loop *)
(* (main.py, main).                                                        *)
(*                                                                         *)
(* Five specifications share  the variables:                               *)
(*   Spec        the match loop of main() driving the engine;              *)
(*   SpecEngine  the engine's public methods called in any order with any  *)
(*               pair of valid moves, short histories;                     *)
(*   SpecWindow  the same methods with long histories (beyond the 10-entry *)
(*               recency window) over a reduced move alphabet;             *)
(*   SpecPattern update_history and detect_repeating_pattern over opponent *)
(*               histories of rock, paper and scissors;                    *)
(*   SpecOracle  resolve_round, get_counter_move and _would_win applied to *)
(*               every move.                                               *)
(***************************************************************************)
EXTENDS Integers, Sequences, FiniteSets, TLC

VARIABLES
    agent,        \* the AIAgent object: difficulty, move_history, opponent_history, last_moves
    state,        \* the GameState object of main()
    pc,           \* position of main() in its loop
    user_move,    \* main's local user_move
    bot_move,     \* main's local bot_move
    winner,       \* main's local winner
    call,         \* the last engine method called, its arguments and its result
    calls,        \* log: the arguments of the update_history calls since __init__ / reset
    ctor,         \* log: the difficulty the engine was constructed with
    played,       \* log: the rounds resolved in the current match, <<user move, bot move>>
    rlog          \* log: bookkeeping of the current round of main()

vars == <<agent, state, pc, user_move, bot_move, winner, call, calls, ctor, played, rlog>>

(***************************************************************************)
(* Bounds of the model.                                                    *)
(***************************************************************************)
MaxRecords == 2         \* SpecEngine: update_history calls between resets
MaxWindowRecords == 11  \* SpecWindow: update_history calls between resets
MaxPatternRecords == 11 \* SpecPattern: update_history calls

(***************************************************************************)
(* Program constants.                                                      *)
(***************************************************************************)
PatternLength == 3      \* self.pattern_length
WindowSize == 10        \* len(self.last_moves) > 10
MinBombRounds == 2      \* len(self.opponent_history) >= 2
LastRound == 3          \* while state.round <= 3

VALID_MOVES == {"rock", "paper", "scissors", "bomb"}

BaseMoves == {"rock", "paper", "scissors"}

Difficulties == {"easy", "medium", "hard", "expert"}

None == "None"

ZeroDivisionError == "ZeroDivisionError"

(***************************************************************************)
(* agent.py: class AIAgent (the second set of method definitions in the    *)
(* class body is the one Python keeps; the first is identical).            *)
(***************************************************************************)

\* AIAgent.__init__: empty histories, the given difficulty.
AIAgent_init(difficulty) ==
    [difficulty       |-> difficulty,
     move_history     |-> <<>>,
     opponent_history |-> <<>>,
     last_moves       |-> <<>>]

update_history_noevict(a, player_move, bot_move_) ==
    [a EXCEPT !.opponent_history = Append(@, player_move),
              !.move_history     = Append(@, bot_move_),
              !.last_moves       = Append(@, player_move)]

update_history_botfirst(a, player_move, bot_move_) ==
    LET appended == Append(a.last_moves, player_move)
    IN  [a EXCEPT !.opponent_history = Append(@, bot_move_),
                  !.move_history     = Append(@, player_move),
                  !.last_moves       = IF Len(appended) > WindowSize
                                       THEN Tail(appended) ELSE appended]

\* AIAgent.update_history: append to both histories and to the window,
\* then pop the window's oldest entry when it holds more than 10.
update_history(a, player_move, bot_move_) ==
    LET appended == Append(a.last_moves, player_move)
    IN  [a EXCEPT !.opponent_history = Append(@, player_move),
                  !.move_history     = Append(@, bot_move_),
                  !.last_moves       = IF Len(appended) > WindowSize
                                       THEN Tail(appended) ELSE appended]

get_counter_move_loses(move) ==
    CASE move = "rock"     -> "scissors"
      [] move = "paper"    -> "rock"
      [] move = "scissors" -> "paper"
      [] move = "bomb"     -> "bomb"
      [] OTHER             -> "rock"

\* AIAgent.get_counter_move: counters.get(move, "rock").
get_counter_move(move) ==
    CASE move = "rock"     -> "paper"
      [] move = "paper"    -> "scissors"
      [] move = "scissors" -> "rock"
      [] move = "bomb"     -> "bomb"
      [] OTHER             -> "rock"

\* The order in which the dict literals of analyze_patterns list their keys.
KeyOrder == <<"rock", "paper", "scissors">>

CountOf(move, h) == Cardinality({i \in 1..Len(h) : h[i] = move})

\* AIAgent.analyze_patterns: the frequency of each base move as num/den
\* (0.33 for an empty history); bombs are not counted, and the division
\* count / total raises ZeroDivisionError when total = 0.
analyze_patterns(a) ==
    IF a.opponent_history = <<>>
    THEN [raised |-> FALSE,
          freq   |-> [m \in BaseMoves |-> [num |-> 33, den |-> 100]]]
    ELSE LET move_counts == [m \in BaseMoves |-> CountOf(m, a.opponent_history)]
             total == move_counts["rock"] + move_counts["paper"] + move_counts["scissors"]
         IN  IF total = 0
             THEN [raised |-> TRUE, freq |-> <<>>]
             ELSE [raised |-> FALSE,
                   freq   |-> [m \in BaseMoves |-> [num |-> move_counts[m], den |-> total]]]

\* x < y for two frequencies num/den with positive denominators.
FreqLess(x, y) == x.num * y.den < y.num * x.den

\* max(patterns, key=patterns.get): the first key, in dict order, whose
\* value no other key's value exceeds.
MaxKey(patterns) ==
    LET best == {k \in 1..Len(KeyOrder) :
                    /\ \A j \in 1..Len(KeyOrder) :
                          ~FreqLess(patterns[KeyOrder[k]], patterns[KeyOrder[j]])}
        first == CHOOSE k \in best : \A j \in best : k <= j
    IN  KeyOrder[first]

detect_repeating_pattern_inclusive(a) ==
    IF Len(a.last_moves) >= PatternLength
    THEN LET n == Len(a.last_moves)
             pattern == SubSeq(a.last_moves, n - PatternLength + 1, n)
             h == a.opponent_history
             pattern_index ==
                 Cardinality({i \in 1..(Len(h) - PatternLength + 1) :
                                 SubSeq(h, i, i + PatternLength - 1) = pattern})
         IN  IF pattern_index >= 2
             THEN get_counter_move(a.last_moves[1])
             ELSE None
    ELSE None

detect_repeating_pattern_always(a) ==
    IF Len(a.last_moves) >= PatternLength
    THEN get_counter_move(a.last_moves[1])
    ELSE None

\* AIAgent.detect_repeating_pattern: the counter of last_moves[0] when the
\* last 3 window entries occur at 2 or more of the offsets
\* 0 .. len(opponent_history) - 4 of the opponent history, else None.
detect_repeating_pattern(a) ==
    IF Len(a.last_moves) >= PatternLength
    THEN LET n == Len(a.last_moves)
             pattern == SubSeq(a.last_moves, n - PatternLength + 1, n)
             h == a.opponent_history
             pattern_index ==
                 Cardinality({i \in 1..(Len(h) - PatternLength) :
                                 SubSeq(h, i, i + PatternLength - 1) = pattern})
             next_index == PatternLength % 3
         IN  IF pattern_index >= 2 /\ next_index < Len(a.last_moves)
             THEN get_counter_move(a.last_moves[next_index + 1])
             ELSE None
    ELSE None

would_win_no_draw(b, p) ==
    IF b = "bomb" THEN TRUE
    ELSE IF p = "bomb" THEN FALSE
    ELSE (CASE b = "rock"     -> "scissors"
            [] b = "scissors" -> "paper"
            [] b = "paper"    -> "rock") = p

\* AIAgent._would_win.
would_win(b, p) ==
    IF b = p THEN FALSE
    ELSE IF b = "bomb" THEN TRUE
    ELSE IF p = "bomb" THEN FALSE
    ELSE (CASE b = "rock"     -> "scissors"
            [] b = "scissors" -> "paper"
            [] b = "paper"    -> "rock") = p

\* bot_wins of get_ai_move: the rounds i with _would_win(move_history[i], opponent_history[i]).
bot_wins(a) ==
    Cardinality({i \in 1..Len(a.move_history) :
                    would_win(a.move_history[i], a.opponent_history[i])})


\* Strategy 4 of get_ai_move: the moves the difficulty branch can return,
\* over both outcomes of each random.random() test and every random.choice.
difficulty_moves(difficulty, counter) ==
    CASE difficulty = "easy"   -> {counter} \cup BaseMoves
      [] difficulty = "medium" -> {counter} \cup BaseMoves
      [] difficulty = "hard"   ->
            {counter, get_counter_move(counter)} \cup BaseMoves
      [] difficulty = "expert" ->
            {counter, get_counter_move(get_counter_move(counter))} \cup BaseMoves
      [] OTHER                 -> {counter}

bomb_gate_ignores_flag(a, bot_bomb_used) ==
    /\ Len(a.opponent_history) >= MinBombRounds
    /\ bot_wins(a) < Len(a.opponent_history) \div 2

bomb_gate_any_round(a, bot_bomb_used) ==
    /\ ~bot_bomb_used
    /\ bot_wins(a) <= Len(a.opponent_history) \div 2

\* Strategy 3 of get_ai_move: whether the bomb branch can be entered
\* (the random.random() < 0.4 test is left to the caller of this gate).
bomb_gate(a, bot_bomb_used) ==
    /\ ~bot_bomb_used
    /\ Len(a.opponent_history) >= MinBombRounds
    /\ bot_wins(a) < Len(a.opponent_history) \div 2

\* AIAgent.get_ai_move: the set of outcomes of one call over all outcomes
\* of the random draws. An outcome names the step that ended the call
\* (via), what it returned, or ZeroDivisionError raised (ret), and the
\* baseline counter of strategy 2 when the call got that far (counter).
get_ai_move(a, player_bomb_used, bot_bomb_used) ==
    LET pattern_move == detect_repeating_pattern(a)
        \* "if pattern_move and random.random() < 0.6: return pattern_move"
        strategy1 == IF pattern_move # None
                     THEN {[via |-> "pattern", ret |-> pattern_move, counter |-> None]}
                     ELSE {}
        patterns == analyze_patterns(a)
        counter == get_counter_move(MaxKey(patterns.freq))
        \* "if random.random() < 0.4: return 'bomb'"
        strategy3 == IF bomb_gate(a, bot_bomb_used)
                     THEN {[via |-> "bomb", ret |-> "bomb", counter |-> counter]}
                     ELSE {}
        strategy4 == {[via |-> "difficulty", ret |-> m, counter |-> counter] :
                         m \in difficulty_moves(a.difficulty, counter)}
    IN  strategy1 \cup
        (IF patterns.raised
         THEN {[via |-> "analyze_patterns", ret |-> ZeroDivisionError,
                counter |-> ZeroDivisionError]}
         ELSE strategy3 \cup strategy4)

after_get_ai_move_pop(a) ==
    [a EXCEPT !.last_moves = IF @ = <<>> THEN @ ELSE Tail(@)]

\* The engine after get_ai_move: the method, detect_repeating_pattern,
\* analyze_patterns and _would_win assign no attribute of self.
after_get_ai_move(a) == a

reset_keep_window(a) ==
    [a EXCEPT !.move_history = <<>>, !.opponent_history = <<>>]

\* AIAgent.reset: the histories and the window are emptied, difficulty is kept.
reset(a) ==
    [a EXCEPT !.move_history = <<>>, !.opponent_history = <<>>, !.last_moves = <<>>]


(***************************************************************************)
(* tools.py and state.py.                                                  *)
(***************************************************************************)

\* What input() can deliver at the move prompt.
RawInputs == {"rock", "paper", "scissors", "bomb", " Rock ", "BOMB", "lizard", ""}

\* str.strip() then str.lower() (in either order) on the raw inputs above.
Normalize(raw) ==
    CASE raw = " Rock " -> "rock"
      [] raw = "BOMB"   -> "bomb"
      [] OTHER          -> raw

validate_move_replay(move, bomb_used) ==
    LET m == Normalize(move)
    IN  IF m \notin VALID_MOVES
        THEN [valid |-> FALSE, move |-> None, reason |-> "Invalid move"]
        ELSE [valid |-> TRUE, move |-> m, reason |-> None]

\* tools.validate_move.
validate_move(move, bomb_used) ==
    LET m == Normalize(move)
    IN  IF m \notin VALID_MOVES
        THEN [valid |-> FALSE, move |-> None, reason |-> "Invalid move"]
        ELSE IF m = "bomb" /\ bomb_used
        THEN [valid |-> FALSE, move |-> None, reason |-> "Bomb already used"]
        ELSE [valid |-> TRUE, move |-> m, reason |-> None]

resolve_round_reversed(um, bm) ==
    IF um = bm THEN "draw"
    ELSE IF um = "bomb" /\ bm = "bomb" THEN "draw"
    ELSE IF um = "bomb" THEN "user"
    ELSE IF bm = "bomb" THEN "bot"
    ELSE IF (CASE um = "rock"     -> "paper"
               [] um = "scissors" -> "rock"
               [] um = "paper"    -> "scissors") = bm
         THEN "user" ELSE "bot"

\* tools.resolve_round.
resolve_round(um, bm) ==
    IF um = bm THEN "draw"
    ELSE IF um = "bomb" /\ bm = "bomb" THEN "draw"
    ELSE IF um = "bomb" THEN "user"
    ELSE IF bm = "bomb" THEN "bot"
    ELSE IF (CASE um = "rock"     -> "scissors"
               [] um = "scissors" -> "paper"
               [] um = "paper"    -> "rock") = bm
         THEN "user" ELSE "bot"

\* state.GameState(): the dataclass defaults.
GameState ==
    [round |-> 1, user_score |-> 0, bot_score |-> 0,
     user_bomb_used |-> FALSE, bot_bomb_used |-> FALSE]

\* tools.update_game_state.
update_game_state(st, w) ==
    LET scored == IF w = "user" THEN [st EXCEPT !.user_score = @ + 1]
                  ELSE IF w = "bot" THEN [st EXCEPT !.bot_score = @ + 1]
                  ELSE st
    IN  [scored EXCEPT !.round = @ + 1]

(***************************************************************************)
(* Logs.                                                                   *)
(***************************************************************************)
NoCall == [op |-> "init", args |-> <<>>, bomb_used |-> FALSE, via |-> None,
           counter |-> None, ret |-> None, cleared |-> 0]

NoRound == [verdict |-> None, choose |-> 0, record |-> 0, candidate |-> None,
            recorded |-> <<>>, round |-> 0]

(***************************************************************************)
(* The engine's methods as actions (SpecEngine, SpecWindow).               *)
(***************************************************************************)
MatchIdle ==
    /\ state = GameState /\ pc = "engine" /\ user_move = None /\ bot_move = None
    /\ winner = None /\ played = <<>> /\ rlog = NoRound

InitEngine ==
    /\ \E d \in Difficulties : agent = AIAgent_init(d) /\ ctor = d
    /\ call = NoCall
    /\ calls = <<>>
    /\ MatchIdle

\* agent.update_history(pm, bm) with the pair drawn from Pairs, at most Max calls.
UpdateHistory(Pairs, Max) ==
    /\ Len(calls) < Max
    /\ \E pr \in Pairs :
          /\ agent' = update_history(agent, pr[1], pr[2])
          /\ calls' = Append(calls, pr)
    /\ call' = [NoCall EXCEPT !.op = "update_history"]
    /\ UNCHANGED <<state, pc, user_move, bot_move, winner, ctor, played, rlog>>

\* agent.get_ai_move(player_bomb_used, bot_bomb_used).
GetAiMove ==
    /\ \E player_bomb_used \in BOOLEAN, bot_bomb_used \in BOOLEAN :
          \E o \in get_ai_move(agent, player_bomb_used, bot_bomb_used) :
             call' = [NoCall EXCEPT !.op = "get_ai_move",
                                    !.bomb_used = bot_bomb_used, !.via = o.via,
                                    !.counter = o.counter, !.ret = o.ret]
    /\ agent' = after_get_ai_move(agent)
    /\ UNCHANGED <<state, pc, user_move, bot_move, winner, calls, ctor, played, rlog>>

\* agent.reset().
Reset ==
    /\ agent' = reset(agent)
    /\ calls' = <<>>
    /\ call' = [NoCall EXCEPT !.op = "reset", !.cleared = Len(agent.opponent_history)]
    /\ UNCHANGED <<state, pc, user_move, bot_move, winner, ctor, played, rlog>>

AllPairs == VALID_MOVES \X VALID_MOVES

\* The reduced alphabet of SpecWindow: a round the engine wins and a round
\* it loses to the opponent's bomb.
WindowPairs == {<<"rock", "paper">>, <<"bomb", "rock">>}

NextEngine == UpdateHistory(AllPairs, MaxRecords) \/ GetAiMove \/ Reset

SpecEngine == InitEngine /\ [][NextEngine]_vars

NextWindow == UpdateHistory(WindowPairs, MaxWindowRecords) \/ GetAiMove \/ Reset

SpecWindow == InitEngine /\ [][NextWindow]_vars


(***************************************************************************)
(* SpecPattern: pattern detection over histories of base moves.            *)
(***************************************************************************)

\* The default of AIAgent.__init__'s difficulty parameter.
DefaultDifficulty == "hard"

InitPattern ==
    /\ agent = AIAgent_init(DefaultDifficulty) /\ ctor = DefaultDifficulty
    /\ call = NoCall
    /\ calls = <<>>
    /\ MatchIdle

\* agent.detect_repeating_pattern().
DetectPattern ==
    /\ call' = [NoCall EXCEPT !.op = "detect_repeating_pattern",
                              !.ret = detect_repeating_pattern(agent)]
    /\ UNCHANGED <<agent, state, pc, user_move, bot_move, winner, calls, ctor, played, rlog>>

\* Rounds of SpecPattern: each base move of the opponent, against a fixed reply.
PatternPairs == {<<m, "rock">> : m \in BaseMoves}

NextPattern == UpdateHistory(PatternPairs, MaxPatternRecords) \/ DetectPattern

SpecPattern == InitPattern /\ [][NextPattern]_vars

(***************************************************************************)
(* SpecOracle: the pure rule functions applied to every argument.          *)
(***************************************************************************)

\* tools.resolve_round(user_move, bot_move) on any two valid moves.
ResolveCall ==
    /\ \E um \in VALID_MOVES, bm \in VALID_MOVES :
          /\ user_move' = um
          /\ bot_move' = bm
          /\ winner' = resolve_round(um, bm)
    /\ UNCHANGED <<agent, state, pc, call, calls, ctor, played, rlog>>

\* agent.get_counter_move(move) on a valid move or an unrecognized string.
CounterCall ==
    /\ \E m \in VALID_MOVES \cup {"lizard"} :
          call' = [NoCall EXCEPT !.op = "get_counter_move", !.args = <<m>>,
                                 !.ret = get_counter_move(m)]
    /\ UNCHANGED <<agent, state, pc, user_move, bot_move, winner, calls, ctor, played, rlog>>

\* agent._would_win(bot_move, player_move) on any two valid moves.
WouldWinCall ==
    /\ \E b \in VALID_MOVES, p \in VALID_MOVES :
          call' = [NoCall EXCEPT !.op = "_would_win", !.args = <<b, p>>,
                                 !.ret = would_win(b, p)]
    /\ UNCHANGED <<agent, state, pc, user_move, bot_move, winner, calls, ctor, played, rlog>>

NextOracle == ResolveCall \/ CounterCall \/ WouldWinCall

SpecOracle == InitEngine /\ [][NextOracle]_vars

(***************************************************************************)
(* main.py: main(). Positions of the loop:                                 *)
(*   "input"   waiting at input(">>> ") of a round (state.round <= 3)      *)
(*   "choose"  before agent.get_ai_move                                    *)
(*   "resolve" before resolve_round / update_game_state                    *)
(*   "record"  before agent.update_history                                 *)
(*   "next"    waiting at input("Press [ENTER] for next round...")         *)
(*   "again"   the final result is shown, waiting at the play-again prompt *)
(*   "exit"    main() returned                                             *)
(*   "crashed" an exception left main()                                    *)
(***************************************************************************)

\* "while state.round <= 3": the position after the loop test.
LoopTest(st) == IF st.round <= LastRound THEN "input" ELSE "again"

forfeit_noadvance(st) == st

\* main, the invalid-input branch: "state.round += 1; continue".
forfeit(st) == [st EXCEPT !.round = @ + 1]

\* main, "Fallback: ensure bot doesn't use bomb twice": the moves the bot can
\* end up playing for a candidate returned by get_ai_move.
veto(candidate, bot_bomb_used) ==
    IF candidate = "bomb" /\ bot_bomb_used THEN BaseMoves ELSE {candidate}

Init ==
    /\ \E d \in Difficulties : agent = AIAgent_init(d) /\ ctor = d
    /\ state = GameState
    /\ pc = "input"
    /\ user_move = None /\ bot_move = None /\ winner = None
    /\ call = NoCall
    /\ calls = <<>>
    /\ played = <<>>
    /\ rlog = NoRound

\* Lines 92-110: read the input and validate it; an invalid input forfeits
\* the round, a valid bomb sets user_bomb_used.
ReadInput ==
    /\ pc = "input"
    /\ \E raw \in RawInputs :
          LET val == validate_move(Normalize(raw), state.user_bomb_used)
              began == [NoRound EXCEPT !.round = state.round]
          IN  IF ~val.valid
              THEN /\ state' = forfeit(state)
                   /\ pc' = LoopTest(state')
                   /\ rlog' = [began EXCEPT !.verdict = val.reason]
                   /\ UNCHANGED user_move
              ELSE /\ user_move' = val.move
                   /\ state' = IF val.move = "bomb"
                               THEN [state EXCEPT !.user_bomb_used = TRUE]
                               ELSE state
                   /\ pc' = "choose"
                   /\ rlog' = [began EXCEPT !.verdict = "valid"]
    /\ UNCHANGED <<agent, bot_move, winner, call, calls, ctor, played>>

\* Lines 113-119: the engine chooses; a second bomb is replaced by a random
\* base move, a first bomb sets bot_bomb_used. An exception of get_ai_move
\* is not caught.
ChooseMove ==
    /\ pc = "choose"
    /\ \E o \in get_ai_move(agent, state.user_bomb_used, state.bot_bomb_used) :
          /\ call' = [NoCall EXCEPT !.op = "get_ai_move",
                                    !.bomb_used = state.bot_bomb_used, !.via = o.via,
                                    !.counter = o.counter, !.ret = o.ret]
          /\ rlog' = [rlog EXCEPT !.choose = @ + 1, !.candidate = o.ret]
          /\ IF o.ret = ZeroDivisionError
             THEN /\ pc' = "crashed"
                  /\ UNCHANGED <<bot_move, state>>
             ELSE /\ \E b \in veto(o.ret, state.bot_bomb_used) : bot_move' = b
                  /\ state' = IF o.ret = "bomb" /\ ~state.bot_bomb_used
                              THEN [state EXCEPT !.bot_bomb_used = TRUE]
                              ELSE state
                  /\ pc' = "resolve"
    /\ agent' = after_get_ai_move(agent)
    /\ UNCHANGED <<user_move, winner, calls, ctor, played>>

\* Lines 128-143: resolve the round and update the game state.
ResolveRound ==
    /\ pc = "resolve"
    /\ winner' = resolve_round(user_move, bot_move)
    /\ state' = update_game_state(state, winner')
    /\ played' = Append(played, <<user_move, bot_move>>)
    /\ pc' = "record"
    /\ UNCHANGED <<agent, user_move, bot_move, call, calls, ctor, rlog>>

\* Line 146: agent.update_history(user_move, bot_move).
RecordRound ==
    /\ pc = "record"
    /\ agent' = update_history(agent, user_move, bot_move)
    /\ calls' = Append(calls, <<user_move, bot_move>>)
    /\ call' = [NoCall EXCEPT !.op = "update_history"]
    /\ rlog' = [rlog EXCEPT !.record = @ + 1, !.recorded = <<user_move, bot_move>>]
    /\ pc' = "next"
    /\ UNCHANGED <<state, user_move, bot_move, winner, ctor, played>>

\* Line 150, then the loop test of line 86.
NextRound ==
    /\ pc = "next"
    /\ pc' = LoopTest(state)
    /\ UNCHANGED <<agent, state, user_move, bot_move, winner, call, calls, ctor, played, rlog>>

\* Lines 163-169, choice "1": main() is entered again, with a new GameState
\* and a new AIAgent of the difficulty then selected.
PlayAgain ==
    /\ pc = "again"
    /\ \E d \in Difficulties : agent' = AIAgent_init(d) /\ ctor' = d
    /\ state' = GameState
    /\ pc' = "input"
    /\ user_move' = None /\ bot_move' = None /\ winner' = None
    /\ call' = NoCall
    /\ calls' = <<>>
    /\ played' = <<>>
    /\ rlog' = NoRound

\* Lines 170-172, choice "2".
Exit ==
    /\ pc = "again"
    /\ pc' = "exit"
    /\ UNCHANGED <<agent, state, user_move, bot_move, winner, call, calls, ctor, played, rlog>>

Next ==
    \/ ReadInput
    \/ ChooseMove
    \/ ResolveRound
    \/ RecordRound
    \/ NextRound
    \/ PlayAgain
    \/ Exit

Spec == Init /\ [][Next]_vars


(***************************************************************************)
(* Properties.                                                             *)
(***************************************************************************)
BombCount(rounds, side) == Cardinality({i \in 1..Len(rounds) : rounds[i][side] = "bomb"})

Rejections == {"Invalid move", "Bomb already used"}

\* C1: every get_ai_move call returns one of rock, paper, scissors, bomb and
\* never raises, for every difficulty, every recorded history of valid
\* moves and both values of the bomb flags.
C1_ChooseMoveReturnsAMove ==
    call.op = "get_ai_move" => call.ret \in VALID_MOVES

\* C2: among the rounds resolved in one match at most one human move is bomb
\* and at most one engine move is bomb.
C2_BombAtMostOncePerPlayer ==
    /\ BombCount(played, 1) <= 1
    /\ BombCount(played, 2) <= 1

\* C2 witness: the human played bomb in a resolved round and a later bomb
\* input was rejected as a replay.
C2_Witness ==
    /\ BombCount(played, 1) = 1
    /\ rlog.verdict = "Bomb already used"
    /\ pc = "again"

\* C3: after N update_history calls since __init__ or reset both histories
\* have length N and entry i of each holds the arguments of the i-th call.
C3_HistoriesAligned ==
    /\ Len(agent.opponent_history) = Len(calls)
    /\ Len(agent.move_history) = Len(calls)
    /\ \A i \in 1..Len(calls) :
          /\ agent.opponent_history[i] = calls[i][1]
          /\ agent.move_history[i] = calls[i][2]

\* C3 witness: two calls with different arguments, each with two different moves.
C3_Witness ==
    /\ Len(calls) >= 2
    /\ calls[1] = <<"rock", "bomb">>
    /\ calls[2] = <<"paper", "scissors">>
    /\ call.op = "update_history"

\* C4: last_moves is the suffix of opponent_history of length
\* min(len(opponent_history), 10).
C4_WindowIsSuffix ==
    LET h == agent.opponent_history
        n == Len(h)
        k == IF n < WindowSize THEN n ELSE WindowSize
    IN  /\ Len(agent.last_moves) <= WindowSize
        /\ agent.last_moves = SubSeq(h, n - k + 1, n)

\* C4 witness: an 11th move was recorded and the first one, a bomb, left the window.
C4_Witness ==
    /\ Len(agent.opponent_history) = WindowSize + 1
    /\ agent.opponent_history[1] = "bomb"
    /\ agent.opponent_history[2] = "rock"
    /\ agent.last_moves[1] = "rock"
    /\ call.op = "update_history"

\* C5: get_ai_move leaves the engine (both histories, the window and the
\* difficulty) as it found it, whichever branch returns.
C5_ChooseMoveKeepsEngine ==
    [][call'.op = "get_ai_move" => agent' = agent]_vars

\* C5 witness: a call answered by the pattern branch with the window full.
C5_Witness ==
    /\ call.op = "get_ai_move"
    /\ Len(agent.last_moves) = WindowSize
    /\ detect_repeating_pattern(agent) = "bomb"
    /\ call.ret = "bomb"
    /\ call.bomb_used

\* C6: after reset() the engine equals a freshly constructed engine of the
\* difficulty given at construction.
C6_ResetIsFresh ==
    call.op = "reset" => agent = AIAgent_init(ctor)

\* C6 witness: a reset that cleared more rounds than the window holds.
C6_Witness ==
    /\ call.op = "reset"
    /\ call.cleared > WindowSize

\* What C7 asks of a round that is over.
OneChooseOneRecord ==
    /\ rlog.choose = 1
    /\ rlog.record = 1
    /\ played # <<>>
    /\ rlog.recorded = played[Len(played)]

\* C7: every round whose input was accepted makes exactly one get_ai_move
\* call followed, before the next round begins or the match ends, by exactly
\* one update_history call with the two moves resolved in that round.
C7_OneChooseThenOneRecordPerRound ==
    (rlog.verdict = "valid" /\ pc \in {"next", "input", "again", "exit", "crashed"})
        => OneChooseOneRecord

\* C8: a rejected input forfeits the round: the round counter advances by
\* one and the scores, both bomb flags and the engine stay as they were.
C8_RejectedInputForfeits ==
    [][(pc = "input" /\ rlog'.verdict \in Rejections)
          => /\ state' = [state EXCEPT !.round = @ + 1]
             /\ agent' = agent]_vars

\* C8 witness: a bomb replay rejected after two resolved rounds that scored.
C8_Witness ==
    /\ rlog.verdict = "Bomb already used"
    /\ rlog.round = LastRound
    /\ state.round = LastRound + 1
    /\ state.user_score + state.bot_score = 2
    /\ Len(agent.opponent_history) = 2

\* The match of main() is over.
MatchOver == pc \in {"again", "exit", "crashed"}

\* C9: the round counter is in 1..4, rounds are played with the counter in
\* 1..3, the match ends exactly when the counter reaches 4, each score is
\* in 0..3 and the scores sum to at most the number of rounds finished.
C9_RoundAndScoreBounds ==
    /\ state.round \in 1..(LastRound + 1)
    /\ pc \in {"input", "choose", "resolve"} => state.round \in 1..LastRound
    /\ rlog.round \in 0..LastRound
    /\ MatchOver => state.round = LastRound + 1
    /\ state.round = LastRound + 1 => pc \in {"record", "next", "again", "exit"}
    /\ state.user_score \in 0..3
    /\ state.bot_score \in 0..3
    /\ state.user_score + state.bot_score <= state.round - 1

\* C10: with fewer than 2 rounds recorded get_ai_move never returns bomb:
\* whatever it returns is rock, paper or scissors.
C10_NoBombBeforeTwoRounds ==
    (call.op = "get_ai_move" /\ Len(agent.opponent_history) < MinBombRounds)
        => /\ call.ret # "bomb"
           /\ call.ret # ZeroDivisionError => call.ret \in BaseMoves

\* C10 witness: one round recorded, lost by the engine, its bomb unused.
C10_Witness ==
    /\ call.op = "get_ai_move"
    /\ ~call.bomb_used
    /\ agent.opponent_history = <<"rock">>
    /\ agent.move_history = <<"scissors">>
    /\ call.ret \in BaseMoves


\* The cyclic dominance: <<x, y>> when x beats y.
Beats == {<<"rock", "scissors">>, <<"scissors", "paper">>, <<"paper", "rock">>}

Swapped(w) == IF w = "user" THEN "bot" ELSE IF w = "bot" THEN "user" ELSE w

\* C11: resolve_round is draw exactly on equal moves, a lone bomb wins,
\* base moves follow rock > scissors > paper > rock, and swapping the
\* arguments swaps the winner.
C11_ResolveRules ==
    winner # None =>
        /\ (winner = "draw") <=> (user_move = bot_move)
        /\ (user_move = "bomb" /\ bot_move # "bomb") => winner = "user"
        /\ (bot_move = "bomb" /\ user_move # "bomb") => winner = "bot"
        /\ (user_move \in BaseMoves /\ bot_move \in BaseMoves /\ user_move # bot_move)
              => /\ (winner = "user") <=> (<<user_move, bot_move>> \in Beats)
                 /\ (winner = "bot") <=> (<<bot_move, user_move>> \in Beats)
        /\ resolve_round(bot_move, user_move) = Swapped(winner)

\* C11 witness: scissors against the bot's bomb resolved for the bot.
C11_Witness ==
    /\ user_move = "scissors"
    /\ bot_move = "bomb"
    /\ winner = "bot"

\* C12: for a base move m, get_counter_move(m) is the base move resolve_round
\* declares the winner against m, and three applications return m.
C12_CounterIsThreeCycle ==
    (call.op = "get_counter_move" /\ call.args[1] \in BaseMoves) =>
        LET m == call.args[1]
            c == call.ret
        IN  /\ c \in BaseMoves
            /\ resolve_round(c, m) = "user"
            /\ resolve_round(m, c) = "bot"
            /\ get_counter_move(c) \notin {m, c}
            /\ get_counter_move(get_counter_move(c)) = m

\* C12 witness: the counter of scissors was asked for and is rock.
C12_Witness ==
    /\ call.op = "get_counter_move"
    /\ call.args = <<"scissors">>
    /\ call.ret = "rock"

\* C20: _would_win(b, p) is true exactly when resolve_round(p, b) is "bot".
C20_WouldWinAgreesWithResolve ==
    call.op = "_would_win" =>
        (call.ret <=> (resolve_round(call.args[2], call.args[1]) = "bot"))

\* C20 witness: the engine's bomb against rock is a win.
C20_Witness ==
    /\ call.op = "_would_win"
    /\ call.args = <<"bomb", "rock">>
    /\ call.ret = TRUE


\* The round counter or a score of GameState differs after the step.
RoundOrScoreChanges ==
    \/ state'.round # state.round
    \/ state'.user_score # state.user_score
    \/ state'.bot_score # state.bot_score

\* C13: during a match every change of GameState's round counter or scores
\* is the call state = update_game_state(state, winner); no other step of
\* main advances the round or changes a score.
C13_OnlyUpdateGameStateMutates ==
    [][(pc # "again" /\ RoundOrScoreChanges)
          => (pc = "resolve" /\ state' = update_game_state(state, winner'))]_vars

\* The engine won a recorded round: bomb beats all, equal moves never a win.
EngineWon(b, p) == b # p /\ (b = "bomb" \/ <<b, p>> \in Beats)

EngineWins(a) ==
    Cardinality({i \in 1..Len(a.move_history) :
                    EngineWon(a.move_history[i], a.opponent_history[i])})

\* The condition C14 gives for the bomb-timing step.
BombTimingCondition(a, ownBombAlreadyUsed) ==
    /\ ~ownBombAlreadyUsed
    /\ Len(a.opponent_history) >= 2
    /\ EngineWins(a) < Len(a.opponent_history) \div 2

\* C14: the bomb-timing step of get_ai_move can return bomb exactly when
\* the own bomb is unused, at least 2 rounds are recorded and the engine won
\* fewer than floor(rounds / 2) of them; with the own bomb used it never does.
C14_BombTimingExactly ==
    /\ (call.op = "get_ai_move" /\ call.via = "bomb")
          => BombTimingCondition(agent, call.bomb_used)
    /\ \A used \in BOOLEAN :
          BombTimingCondition(agent, used)
             => \E o \in get_ai_move(agent, FALSE, used) : o.via = "bomb" /\ o.ret = "bomb"


\* The start offsets (from 1) up to last at which triple t occurs in h.
TripleOffsets(h, t, last) == {i \in 1..last : SubSeq(h, i, i + 2) = t}

\* The move that defeats m under the cyclic dominance; bomb for bomb.
Defeats(m) == IF m = "bomb" THEN "bomb" ELSE CHOOSE c \in BaseMoves : <<c, m>> \in Beats

RockPaperScissorsThrice ==
    <<"rock", "paper", "scissors", "rock", "paper", "scissors", "rock", "paper", "scissors">>

\* What C15 says of a detect_repeating_pattern call, the occurrences of the
\* window's last three entries being counted at the start offsets 1..last
\* of the opponent history.
PatternClaim(last) ==
    LET h == agent.opponent_history
        w == agent.last_moves
        found == /\ Len(w) >= 3
                 /\ Cardinality(TripleOffsets(h, SubSeq(w, Len(w) - 2, Len(w)), last)) >= 2
    IN  /\ (call.ret # None) <=> found
        /\ call.ret # None => call.ret = Defeats(w[1])
        /\ h = RockPaperScissorsThrice => call.ret = "paper"

FirstMostFrequent(h) ==
    LET n(m) == Cardinality({i \in 1..Len(h) : h[i] = m})
    IN  IF n("rock") >= n("paper") /\ n("rock") >= n("scissors") THEN "rock"
        ELSE IF n("paper") >= n("scissors") THEN "paper"
        ELSE "scissors"

\* C16: the baseline counter of get_ai_move is the counter of the most
\* frequent base move of the opponent history (bombs ignored, ties to the
\* first of rock, paper, scissors; rock for an empty history); for rock,
\* rock, rock, paper it is paper.
C16_BaselineCounter ==
    (call.op = "get_ai_move" /\ call.via # "pattern") =>
        /\ call.counter = Defeats(FirstMostFrequent(agent.opponent_history))
        /\ agent.opponent_history = <<"rock", "rock", "rock", "paper">>
              => call.counter = "paper"

\* C17 (as stated): with the own bomb already used get_ai_move never
\* returns bomb.
C17_NoBombOnceUsed ==
    (call.op = "get_ai_move" /\ call.bomb_used) => call.ret # "bomb"

\* C17 (amended): with the own bomb already used get_ai_move returns bomb
\* only from the pattern step, as the counter of a bomb at the head of the
\* recency window; the bomb-timing and difficulty steps never return it.
C17_BombOnceUsedOnlyFromPattern ==
    (call.op = "get_ai_move" /\ call.bomb_used /\ call.ret = "bomb") =>
        /\ call.via = "pattern"
        /\ agent.last_moves[1] = "bomb"

\* C17 witness: own bomb used, the opponent history bomb then rock five
\* times, and the call returned the pattern step's prediction, bomb.
C17_Witness ==
    /\ call.op = "get_ai_move"
    /\ call.bomb_used
    /\ call.via = "pattern"
    /\ call.ret = "bomb"
    /\ agent.opponent_history = <<"bomb", "rock", "rock", "rock", "rock", "rock">>

\* C18: in a match the engine plays bomb only in round 3, after rounds 1 and
\* 2 were both resolved (valid) and the engine won neither.
C18_EngineBombOnlyInRoundThree ==
    /\ (pc = "resolve" /\ bot_move = "bomb") =>
          /\ state.round = 3
          /\ rlog.round = 3
          /\ Len(played) = 2
          /\ \A i \in 1..2 : resolve_round(played[i][1], played[i][2]) # "bot"
    /\ \A i \in 1..Len(played) :
          played[i][2] = "bomb" =>
             /\ i = 3
             /\ \A j \in 1..2 : resolve_round(played[j][1], played[j][2]) # "bot"

\* C18 witness: the engine's bomb of round 3 is about to be resolved.
C18_Witness ==
    /\ pc = "resolve"
    /\ bot_move = "bomb"
    /\ call.via = "bomb"
    /\ state.bot_bomb_used

\* C19: in a match pattern detection never yields a prediction: no
\* get_ai_move call returns from the pattern step, at most 2 rounds are
\* recorded at a get_ai_move call and at most 3 in the match.
C19_NoPatternInAMatch ==
    /\ detect_repeating_pattern(agent) = None
    /\ call.via # "pattern"
    /\ call.op = "get_ai_move" => Len(agent.opponent_history) <= 2
    /\ Len(agent.opponent_history) <= LastRound
    /\ Len(agent.opponent_history) = Len(played) - (IF pc = "record" THEN 1 ELSE 0)

\* C19 witness: the third call of a match, two rounds recorded, and the
\* window would hold three entries after it.
C19_Witness ==
    /\ call.op = "get_ai_move"
    /\ Len(agent.opponent_history) = 2
    /\ agent.opponent_history[1] = agent.opponent_history[2]
    /\ user_move = agent.opponent_history[1]
    /\ pc = "resolve"

====
